---- MODULE Spec2Model ----
(***************************************************************************)
(* Triangulation detection engines of dna-bukkets:                         *)
(*   SimpleTriangulationEngine     (src/simple_triangulation.py)           *)
(*   OptimizedTriangulationEngine  (src/optimized_triangulation.py)        *)
(* A row of the input DataFrame is a record [chr, start, end]; a row is    *)
(* identified by its index label, here its position in data.  A group is   *)
(* the sequence of the index labels of its members, seed first.            *)
(***************************************************************************)
EXTENDS Integers, Sequences, FiniteSets, TLC

\* ---------------------------------------------------------------- bounds
MaxSegs == 4        \* rows in the input DataFrame
MaxPos == 2         \* largest base-pair position
NumChr == 2         \* distinct Chromosome keys
MaxGroupSize == 3   \* largest min_group_size requested
MaxWorkers == 2     \* largest max_workers requested
MaxCalls == 2       \* calls of the detect method on one engine object
MaxMembers == 3     \* report functions alone: largest group
MaxGroups == 4      \* report functions alone: longest group list
MaxNames == 2       \* original engine: distinct Match Name values
MaxOrigSegs == 3    \* original engine: rows in the input DataFrame
MaxCm == 2          \* GUI: largest centimorgans value stored or entered
MaxGuiSegs == 3     \* GUI: rows stored in the database
VerifyMaxLen == 6   \* strict pass: longest candidate list
MaxOrderPos == 3    \* row-order runs: largest base-pair position
MaxOrderSegs == 3   \* row-order runs: rows in the input DataFrame
MaxRuns == 2        \* GUI runs: presses of the run button
MaxRunSegs == 2     \* GUI runs: segments stored in the database
MaxRunCm == 1       \* GUI runs: largest centimorgans value and cM bound typed

\* ------------------------------------------------------- program constants
SmallGroupLimit == 5   \* _verify_triangulation_group: "if len(segments) <= 5"

VARIABLES
    data,                 \* the DataFrame handed to the engine
    min_overlap_bp,       \* argument min_overlap_bp
    min_group_size,       \* argument min_group_size
    engine,               \* "simple", "optimized" or "original": the class of the engine object
    max_workers,          \* argument max_workers of the running call (0: no call yet)
    pc,                   \* where the caller's detect call stands
    calls,                \* detect calls started so far
    triangulation_groups, \* self.triangulation_groups
    groups_at_call,       \* self.triangulation_groups when the running call began
    keys,                 \* chromosomes the call iterates (simple) / args_list (optimized)
    next_key,             \* simple: position of the for loop in keys
    all_groups,           \* local all_groups of the running call
    task,                 \* optimized: state of each pool task
    results,              \* optimized: per-task return value held by pool.map
    failed,               \* chromosomes whose processing raised in the running call
    result,               \* list returned by the last call that returned
    report,               \* value returned by the last report function
    completion_order,     \* optimized: pool tasks in the order they ended
    previous_report,      \* value returned by the report call before the last
    export_data,          \* export_optimized_results: the rows of the CSV written
    db,                   \* GUI: the rows get_all_segments returns
    min_cm,               \* GUI: text of the Min cM entry
    max_cm,               \* GUI: text of the Max cM entry
    verify_segments,      \* _verify_triangulation_group: argument segments
    verify_result,        \* _verify_triangulation_group: returned list
    threads,              \* GUI: the analysis threads started, in start order
    after_queue,          \* GUI: callbacks scheduled with root.after(0, ...), oldest first
    progress_bar,         \* GUI: "running" after start(), "stopped" after stop()
    analysis_results,     \* GUI: what the results pane shows
    engine_groups,        \* GUI: triangulation_groups of simple_engine and of optimized_engine
    browser_data,         \* GUI: self.browser.data
    latest_completed,     \* the groups found by the analysis that completed last
    export_expected       \* latest_completed when export was last pressed

vars == <<data, min_overlap_bp, min_group_size, engine, max_workers, pc, calls,
          triangulation_groups, groups_at_call, keys, next_key, all_groups,
          task, results, failed, result, report, completion_order,
          previous_report, export_data, db, min_cm, max_cm,
          verify_segments, verify_result, threads, after_queue, progress_bar,
          analysis_results, engine_groups, browser_data, latest_completed,
          export_expected>>

gui_vars == <<db, min_cm, max_cm>>
verify_vars == <<verify_segments, verify_result>>
run_vars == <<threads, after_queue, progress_bar, analysis_results, engine_groups,
              browser_data, latest_completed, export_expected>>

\* ------------------------------------------------------------- helpers
Min(a, b) == IF a <= b THEN a ELSE b
Max(a, b) == IF a >= b THEN a ELSE b
Range(s) == {s[i] : i \in 1..Len(s)}

Rows == {r \in [chr : 1..NumChr, start : 0..(MaxPos - 1), end : 1..MaxPos] :
            r.end > r.start}
DataFrames == UNION {[1..n -> Rows] : n \in 0..MaxSegs}

RECURSIVE Flatten(_)
Flatten(ss) == IF ss = <<>> THEN <<>> ELSE Head(ss) \o Flatten(Tail(ss))

RECURSIVE SetToSortedSeq(_)
SetToSortedSeq(S) ==
    IF S = {} THEN <<>>
    ELSE LET m == CHOOSE x \in S : \A y \in S : x <= y
         IN <<m>> \o SetToSortedSeq(S \ {m})

\* data.groupby('Chromosome'): the keys in ascending order ...
GroupbyKeys(d) == SetToSortedSeq({d[i].chr : i \in 1..Len(d)})

\* Mutant of ChrRows: the frame is not split by chromosome.
ChrRowsUnsplit(d, c) == [i \in 1..Len(d) |-> i]

\* ... and, per key, the index labels of its rows in the order of the frame.
ChrRows(d, c) == SelectSeq([i \in 1..Len(d) |-> i], LAMBDA i : d[i].chr = c)

\* ------------------------------------------------ simple engine, one chromosome
\* actual_overlap = overlap_end - overlap_start   (no clamp at 0)
ActualOverlapSimple(d, a, b) ==
    Min(d[a].end, d[b].end) - Max(d[a].start, d[b].start)

\* Mutant of SkipSimple: the used segments are not skipped.
SkipSimpleSeedOnly(i, j, used_segments) == j = i

\* if j == i or j in used_segments: continue
SkipSimple(i, j, used_segments) == j = i \/ j \in used_segments

\* The overlap test of the simple pass with the threshold exclusive.
QualifiesSimpleStrict(actual_overlap, T) == actual_overlap > T

\* if actual_overlap >= min_overlap_bp
QualifiesSimple(actual_overlap, T) == actual_overlap >= T

\* The inner for loop: positions (in segments) collected by seed i, seed first.
RECURSIVE CollectSimple(_, _, _, _, _, _, _)
CollectSimple(d, segments, T, used_segments, i, j, current) ==
    IF j > Len(segments) THEN current
    ELSE IF SkipSimple(i, j, used_segments)
         THEN CollectSimple(d, segments, T, used_segments, i, j + 1, current)
    ELSE IF QualifiesSimple(ActualOverlapSimple(d, segments[i], segments[j]), T)
         THEN CollectSimple(d, segments, T, used_segments, i, j + 1, Append(current, j))
    ELSE CollectSimple(d, segments, T, used_segments, i, j + 1, current)

\* Mutant of EmitSimple: off by one in the size test.
EmitSimpleOffByOne(current, G) == Len(current) >= G - 1

\* if len(current_group) >= min_group_size
EmitSimple(current, G) == Len(current) >= G

\* The outer loop's iteration marking the star as used whether or not it is
\* emitted.
SeedStepSimpleAlwaysMarks(d, segments, T, G, i, st) ==
    IF i \in st.used THEN st
    ELSE LET current == CollectSimple(d, segments, T, st.used, i, 1, <<i>>)
         IN IF EmitSimple(current, G)
            THEN [groups |-> Append(st.groups,
                                    [k \in 1..Len(current) |-> segments[current[k]]]),
                  used |-> st.used \cup Range(current)]
            ELSE [groups |-> st.groups, used |-> st.used \cup Range(current)]

\* One iteration of the outer for loop on st = [groups, used].
SeedStepSimple(d, segments, T, G, i, st) ==
    IF i \in st.used THEN st
    ELSE LET current == CollectSimple(d, segments, T, st.used, i, 1, <<i>>)
         IN IF EmitSimple(current, G)
            THEN [groups |-> Append(st.groups,
                                    [k \in 1..Len(current) |-> segments[current[k]]]),
                  used |-> st.used \cup Range(current)]
            ELSE st

RECURSIVE SimpleLoop(_, _, _, _, _, _)
SimpleLoop(d, segments, T, G, i, st) ==
    IF i > Len(segments) THEN st
    ELSE SimpleLoop(d, segments, T, G, i + 1, SeedStepSimple(d, segments, T, G, i, st))

\* _find_overlapping_groups_simple(segments, min_overlap_bp, min_group_size)
FindOverlappingGroupsSimple(d, segments, T, G) ==
    SimpleLoop(d, segments, T, G, 1, [groups |-> <<>>, used |-> {}]).groups

\* Overlap measured from the smaller start in place of the larger one.
ActualOverlapFromMinStart(d, a, b) ==
    Max(0, Min(d[a].end, d[b].end) - Min(d[a].start, d[b].start))

\* --------------------------------------------- optimized engine, one chromosome
\* actual_overlap = max(0, overlap_end - overlap_start)
ActualOverlapOptimized(d, a, b) ==
    Max(0, Min(d[a].end, d[b].end) - Max(d[a].start, d[b].start))

\* segments.sort(key=lambda x: x['start']): stable insertion by start
RECURSIVE InsertByStart(_, _, _)
InsertByStart(d, sorted, x) ==
    IF sorted = <<>> THEN <<x>>
    ELSE IF d[Head(sorted)].start <= d[x].start
         THEN <<Head(sorted)>> \o InsertByStart(d, Tail(sorted), x)
    ELSE <<x>> \o sorted

RECURSIVE SortByStartFrom(_, _, _, _)
SortByStartFrom(d, segments, k, sorted) ==
    IF k > Len(segments) THEN sorted
    ELSE SortByStartFrom(d, segments, k + 1, InsertByStart(d, sorted, segments[k]))

SortByStart(d, segments) == SortByStartFrom(d, segments, 1, <<>>)

\* if j == i or segment2['index'] in current_group_indices: continue
SkipOptimized(i, j, index2, current_group_indices, processed_indices) ==
    j = i \/ index2 \in current_group_indices

\* Mutant of QualifiesOptimized: the threshold is exclusive.
QualifiesOptimizedStrict(actual_overlap, T) == actual_overlap > T

\* if actual_overlap >= min_overlap_bp
QualifiesOptimized(actual_overlap, T) == actual_overlap >= T

\* The inner for loop: index labels collected by seed i, seed first.
RECURSIVE CollectOptimized(_, _, _, _, _, _, _)
CollectOptimized(d, segments, T, processed_indices, i, j, current_group) ==
    IF j > Len(segments) THEN current_group
    ELSE IF SkipOptimized(i, j, segments[j], Range(current_group), processed_indices)
         THEN CollectOptimized(d, segments, T, processed_indices, i, j + 1, current_group)
    ELSE IF QualifiesOptimized(ActualOverlapOptimized(d, segments[i], segments[j]), T)
         THEN CollectOptimized(d, segments, T, processed_indices, i, j + 1,
                               Append(current_group, segments[j]))
    ELSE CollectOptimized(d, segments, T, processed_indices, i, j + 1, current_group)

\* The size test of the optimized pass off by one.
EmitOptimizedOffByOne(current_group, G) == Len(current_group) >= G - 1

\* if len(current_group) >= min_group_size
EmitOptimized(current_group, G) == Len(current_group) >= G

\* One iteration of the outer for loop on st = [groups, processed].
SeedStepOptimized(d, segments, T, G, i, st) ==
    IF segments[i] \in st.processed THEN st
    ELSE LET current_group ==
                 CollectOptimized(d, segments, T, st.processed, i, 1, <<segments[i]>>)
         IN IF EmitOptimized(current_group, G)
            THEN [groups |-> Append(st.groups, current_group),
                  processed |-> st.processed \cup Range(current_group)]
            ELSE st

RECURSIVE OptimizedLoop(_, _, _, _, _, _)
OptimizedLoop(d, segments, T, G, i, st) ==
    IF i > Len(segments) THEN st
    ELSE OptimizedLoop(d, segments, T, G, i + 1,
                       SeedStepOptimized(d, segments, T, G, i, st))

\* _process_chromosome_optimized((chromosome, chr_data, min_overlap_bp, min_group_size, debug))
ProcessChromosomeOptimized(d, chr_data, T, G) ==
    OptimizedLoop(d, SortByStart(d, chr_data), T, G, 1,
                  [groups |-> <<>>, processed |-> {}]).groups

\* ------------------------------------------------------------ reports
\* sorted(self.triangulation_groups, key=len, reverse=True): Python's sort is
\* stable, and reverse=True keeps the original order of equal keys.
\* Mutant of InsertBySizeDesc: a group goes in front of the groups of its own size.
RECURSIVE InsertBySizeDescUnstable(_, _)
InsertBySizeDescUnstable(sorted, g) ==
    IF sorted = <<>> THEN <<g>>
    ELSE IF Len(Head(sorted)) > Len(g)
         THEN <<Head(sorted)>> \o InsertBySizeDescUnstable(Tail(sorted), g)
    ELSE <<g>> \o sorted

RECURSIVE InsertBySizeDesc(_, _)
InsertBySizeDesc(sorted, g) ==
    IF sorted = <<>> THEN <<g>>
    ELSE IF Len(Head(sorted)) >= Len(g)
         THEN <<Head(sorted)>> \o InsertBySizeDesc(Tail(sorted), g)
    ELSE <<g>> \o sorted

RECURSIVE SortedBySizeFrom(_, _, _)
SortedBySizeFrom(groups, k, sorted) ==
    IF k > Len(groups) THEN sorted
    ELSE SortedBySizeFrom(groups, k + 1, InsertBySizeDesc(sorted, groups[k]))

SortedBySizeReverse(groups) == SortedBySizeFrom(groups, 1, <<>>)

\* for rank, group in enumerate(sorted_groups, 1): one entry per ranked group
RankEntries(sorted_groups) ==
    [r \in 1..Len(sorted_groups) |->
        [rank |-> r, people |-> Len(sorted_groups[r]), group |-> sorted_groups[r]]]

NoReport == [text |-> "none", summary |-> <<>>, entries |-> <<>>]
NoGroupsFound == [text |-> "No triangulation groups found.", summary |-> <<>>,
                  entries |-> <<>>]

\* The window before any analysis was started: no thread, no callback
\* scheduled, the bar at rest, an empty pane, engines without groups.
EmptyPane == [kind |-> "empty", report |-> NoReport]
NoRuns ==
    /\ threads = <<>>
    /\ after_queue = <<>>
    /\ progress_bar = "stopped"
    /\ analysis_results = EmptyPane
    /\ engine_groups = [simple |-> <<>>, optimized |-> <<>>]
    /\ browser_data = <<>>
    /\ latest_completed = <<>>
    /\ export_expected = [groups |-> <<>>, quiet |-> TRUE]

\* create_triangulation_report_by_size without the guard of lines 239-240: an
\* empty list gets the titled report with a count of zero.
ReportBySizeUnguarded(title, groups) ==
    LET sorted_groups == SortedBySizeReverse(groups)
    IN [text |-> title, summary |-> <<Len(sorted_groups)>>,
        entries |-> RankEntries(sorted_groups)]

\* create_triangulation_report_by_size of either engine: the SUMMARY lines
\* (count, largest, smallest) and the RANK entries.
ReportBySize(title, groups) ==
    IF groups = <<>> THEN NoGroupsFound
    ELSE LET sorted_groups == SortedBySizeReverse(groups)
         IN [text |-> title,
             summary |-> <<Len(sorted_groups), Len(sorted_groups[1]),
                           Len(sorted_groups[Len(sorted_groups)])>>,
             entries |-> RankEntries(sorted_groups)]

\* create_simple_group_list: one line per ranked group.
SimpleGroupList(groups) ==
    IF groups = <<>> THEN NoGroupsFound
    ELSE [text |-> "QUICK GROUP SUMMARY (Largest First)", summary |-> <<>>,
          entries |-> RankEntries(SortedBySizeReverse(groups))]

\* ---------------------------------------------------------- state machine
Quiescent == pc \in {"idle", "returned", "raised"}

Init ==
    /\ data \in DataFrames
    /\ min_overlap_bp \in 0..MaxPos
    /\ min_group_size \in 1..MaxGroupSize
    /\ engine \in {"simple", "optimized"}
    /\ max_workers = 0
    /\ pc = "idle"
    /\ calls = 0
    /\ triangulation_groups = <<>>
    /\ groups_at_call = <<>>
    /\ keys = <<>>
    /\ next_key = 1
    /\ all_groups = <<>>
    /\ task = <<>>
    /\ results = <<>>
    /\ failed = {}
    /\ result = <<>>
    /\ report = NoReport
    /\ completion_order = <<>>
    /\ previous_report = NoReport
    /\ export_data = <<>>
    /\ db = <<>>
    /\ min_cm = "0"
    /\ max_cm = "0"
    /\ verify_segments = <<>>
    /\ verify_result = <<>>
    /\ NoRuns

\* --- SimpleTriangulationEngine.detect_triangulation_simple
\* Entry: chromosome_groups = data.groupby('Chromosome'); all_groups = []
CallSimple ==
    /\ engine = "simple"
    /\ Quiescent
    /\ calls < MaxCalls
    /\ calls' = calls + 1
    /\ pc' = "simple_loop"
    /\ groups_at_call' = triangulation_groups
    /\ keys' = GroupbyKeys(data)
    /\ next_key' = 1
    /\ all_groups' = <<>>
    /\ failed' = {}
    /\ result' = <<>>
    /\ UNCHANGED <<data, min_overlap_bp, min_group_size, engine, max_workers,
                   triangulation_groups, task, results, report, completion_order,
                   previous_report, export_data, gui_vars, verify_vars, run_vars>>

\* Mutant of SimpleIter: self.triangulation_groups is assigned inside the loop.
SimpleIterPublishing ==
    /\ pc = "simple_loop"
    /\ next_key <= Len(keys)
    /\ LET chr_data == ChrRows(data, keys[next_key])
       IN all_groups' =
            IF Len(chr_data) < min_group_size THEN all_groups
            ELSE all_groups \o FindOverlappingGroupsSimple(data, chr_data,
                                                            min_overlap_bp, min_group_size)
    /\ triangulation_groups' = all_groups'
    /\ next_key' = next_key + 1
    /\ UNCHANGED <<data, min_overlap_bp, min_group_size, engine, max_workers, pc, calls,
                   groups_at_call, keys, task, results, failed, result, report,
                   completion_order,
                   previous_report, export_data, gui_vars, verify_vars, run_vars>>

\* One iteration of "for chromosome, chr_data in chromosome_groups".
SimpleIter ==
    /\ pc = "simple_loop"
    /\ next_key <= Len(keys)
    /\ LET chr_data == ChrRows(data, keys[next_key])
       IN all_groups' =
            IF Len(chr_data) < min_group_size THEN all_groups
            ELSE all_groups \o FindOverlappingGroupsSimple(data, chr_data,
                                                            min_overlap_bp, min_group_size)
    /\ next_key' = next_key + 1
    /\ UNCHANGED <<data, min_overlap_bp, min_group_size, engine, max_workers, pc, calls,
                   triangulation_groups, groups_at_call, keys, task, results, failed,
                   result, report, completion_order,
                   previous_report, export_data, gui_vars, verify_vars, run_vars>>

\* The iteration raises: nothing catches it, the call ends with the exception
\* and line 51 is never reached.
SimpleRaise ==
    /\ pc = "simple_loop"
    /\ next_key <= Len(keys)
    /\ Len(ChrRows(data, keys[next_key])) >= min_group_size
    /\ pc' = "raised"
    /\ failed' = {keys[next_key]}
    /\ UNCHANGED <<data, min_overlap_bp, min_group_size, engine, max_workers, calls,
                   triangulation_groups, groups_at_call, keys, next_key, all_groups,
                   task, results, result, report, completion_order,
                   previous_report, export_data, gui_vars, verify_vars, run_vars>>

\* self.triangulation_groups = all_groups; return all_groups
SimpleReturn ==
    /\ pc = "simple_loop"
    /\ next_key > Len(keys)
    /\ triangulation_groups' = all_groups
    /\ result' = all_groups
    /\ pc' = "returned"
    /\ UNCHANGED <<data, min_overlap_bp, min_group_size, engine, max_workers, calls,
                   groups_at_call, keys, next_key, all_groups, task, results, failed,
                   report, completion_order,
                   previous_report, export_data, gui_vars, verify_vars, run_vars>>

\* --- OptimizedTriangulationEngine.detect_triangulation_groups_optimized
\* args_list: the chromosomes with at least min_group_size rows, in key order.
ArgsList(d, G) == SelectSeq(GroupbyKeys(d), LAMBDA c : Len(ChrRows(d, c)) >= G)

\* pool.map returns the per-task values in the order of args_list; the loop at
\* lines 49-50 extends all_groups with each.
PoolMapValue(res) == Flatten(res)

\* Mutant of PoolMapReady: the caller goes on at the first finished task.
PoolMapAnyDone(t) == \E k \in DOMAIN t : t[k] = "done"

\* pool.map returns once every task has returned.
PoolMapReady(t) == \A k \in DOMAIN t : t[k] = "done"

\* Entry up to pool.map; with an empty args_list the call runs to its return.
CallOptimized(w) ==
    /\ engine = "optimized"
    /\ Quiescent
    /\ calls < MaxCalls
    /\ calls' = calls + 1
    /\ max_workers' = w
    /\ groups_at_call' = triangulation_groups
    /\ keys' = ArgsList(data, min_group_size)
    /\ all_groups' = <<>>
    /\ failed' = {}
    /\ result' = <<>>
    /\ task' = [k \in 1..Len(keys') |-> "queued"]
    /\ results' = [k \in 1..Len(keys') |-> <<>>]
    /\ IF Len(keys') > 0
       THEN pc' = "pool_map" /\ UNCHANGED triangulation_groups
       ELSE pc' = "returned" /\ triangulation_groups' = <<>>
    /\ UNCHANGED <<data, min_overlap_bp, min_group_size, engine, next_key, report,
                   previous_report, export_data, gui_vars, verify_vars, run_vars>>
    /\ completion_order' = <<>>

\* A free worker process takes the oldest queued task.
WorkerTake(k) ==
    /\ pc = "pool_map"
    /\ k \in DOMAIN task
    /\ task[k] = "queued"
    /\ \A m \in 1..(k - 1) : task[m] # "queued"
    /\ Cardinality({m \in DOMAIN task : task[m] = "running"}) < max_workers
    /\ task' = [task EXCEPT ![k] = "running"]
    /\ UNCHANGED <<data, min_overlap_bp, min_group_size, engine, max_workers, pc, calls,
                   triangulation_groups, groups_at_call, keys, next_key, all_groups,
                   results, failed, result, report, completion_order,
                   previous_report, export_data, gui_vars, verify_vars, run_vars>>

\* The worker's _process_chromosome_optimized returns its groups.
WorkerReturn(k) ==
    /\ pc = "pool_map"
    /\ k \in DOMAIN task
    /\ task[k] = "running"
    /\ task' = [task EXCEPT ![k] = "done"]
    /\ results' = [results EXCEPT ![k] =
                      ProcessChromosomeOptimized(data, ChrRows(data, keys[k]),
                                                 min_overlap_bp, min_group_size)]
    /\ UNCHANGED <<data, min_overlap_bp, min_group_size, engine, max_workers, pc, calls,
                   triangulation_groups, groups_at_call, keys, next_key, all_groups,
                   failed, result, report,
                   previous_report, export_data, gui_vars, verify_vars, run_vars>>
    /\ completion_order' = Append(completion_order, k)

\* The worker's _process_chromosome_optimized raises.
WorkerRaise(k) ==
    /\ pc = "pool_map"
    /\ k \in DOMAIN task
    /\ task[k] = "running"
    /\ task' = [task EXCEPT ![k] = "failed"]
    /\ failed' = failed \cup {keys[k]}
    /\ UNCHANGED <<data, min_overlap_bp, min_group_size, engine, max_workers, pc, calls,
                   triangulation_groups, groups_at_call, keys, next_key, all_groups,
                   results, result, report,
                   previous_report, export_data, gui_vars, verify_vars, run_vars>>
    /\ completion_order' = Append(completion_order, k)

\* pool.map returns; lines 49-60.
MapReturn ==
    /\ pc = "pool_map"
    /\ PoolMapReady(task)
    /\ all_groups' = PoolMapValue(results)
    /\ triangulation_groups' = all_groups'
    /\ result' = all_groups'
    /\ pc' = "returned"
    /\ UNCHANGED <<data, min_overlap_bp, min_group_size, engine, max_workers, calls,
                   groups_at_call, keys, next_key, task, results, failed, report, completion_order,
                   previous_report, export_data, gui_vars, verify_vars, run_vars>>

\* pool.map re-raises a task's exception in the caller; the with block ends the
\* pool and the exception leaves the method before line 52.
MapRaise ==
    /\ pc = "pool_map"
    /\ \E k \in DOMAIN task : task[k] = "failed"
    /\ pc' = "raised"
    /\ UNCHANGED <<data, min_overlap_bp, min_group_size, engine, max_workers, calls,
                   triangulation_groups, groups_at_call, keys, next_key, all_groups,
                   task, results, failed, result, report, completion_order,
                   previous_report, export_data, gui_vars, verify_vars, run_vars>>

\* --- report functions, callable whenever no detect call is running
CreateReportBySizeSimple ==
    /\ engine = "simple"
    /\ Quiescent
    /\ report' = ReportBySize("SIMPLE DNA TRIANGULATION GROUPS - SORTED BY SIZE",
                              triangulation_groups)
    /\ previous_report' = report
    /\ UNCHANGED <<data, min_overlap_bp, min_group_size, engine, max_workers, pc, calls,
                   triangulation_groups, groups_at_call, keys, next_key, all_groups,
                   task, results, failed, result, completion_order,
                   export_data, gui_vars, verify_vars, run_vars>>

\* create_simple_group_list as it would be with self.triangulation_groups.sort(...)
\* in place of sorted(...): the stored list is reordered by the call.
CreateSimpleGroupListInPlace ==
    /\ engine = "optimized"
    /\ Quiescent
    /\ report' = SimpleGroupList(triangulation_groups)
    /\ triangulation_groups' = SortedBySizeReverse(triangulation_groups)
    /\ previous_report' = report
    /\ UNCHANGED <<data, min_overlap_bp, min_group_size, engine, max_workers, pc, calls,
                   groups_at_call, keys, next_key, all_groups,
                   task, results, failed, result, completion_order,
                   export_data, gui_vars, verify_vars, run_vars>>

CreateReportBySizeOptimized ==
    /\ engine = "optimized"
    /\ Quiescent
    /\ report' = ReportBySize("DNA TRIANGULATION GROUPS - SORTED BY SIZE",
                              triangulation_groups)
    /\ previous_report' = report
    /\ UNCHANGED <<data, min_overlap_bp, min_group_size, engine, max_workers, pc, calls,
                   triangulation_groups, groups_at_call, keys, next_key, all_groups,
                   task, results, failed, result, completion_order,
                   export_data, gui_vars, verify_vars, run_vars>>

CreateSimpleGroupList ==
    /\ engine = "optimized"
    /\ Quiescent
    /\ report' = SimpleGroupList(triangulation_groups)
    /\ previous_report' = report
    /\ UNCHANGED <<data, min_overlap_bp, min_group_size, engine, max_workers, pc, calls,
                   triangulation_groups, groups_at_call, keys, next_key, all_groups,
                   task, results, failed, result, completion_order,
                   export_data, gui_vars, verify_vars, run_vars>>

Next ==
    \/ CallSimple
    \/ SimpleIter
    \/ SimpleRaise
    \/ SimpleReturn
    \/ \E w \in 1..MaxWorkers : CallOptimized(w)
    \/ \E k \in 1..NumChr : WorkerTake(k)
    \/ \E k \in 1..NumChr : WorkerReturn(k)
    \/ \E k \in 1..NumChr : WorkerRaise(k)
    \/ MapReturn
    \/ MapRaise

Spec == Init /\ [][Next]_vars

\* --------------------------------------------- the report functions alone
\* An engine object holding any list of groups; a group is drawn as the run of
\* index labels lo..hi, so that the lists hold groups of equal and of different
\* sizes in every order.
GroupPool == {[k \in 1..(hi - lo + 1) |-> lo + k - 1] :
                 lo \in 1..MaxMembers, hi \in 1..MaxMembers} \ {<<>>}
GroupLists == UNION {[1..n -> GroupPool] : n \in 0..MaxGroups}

ReportInit ==
    /\ data = [i \in 1..MaxMembers |-> [chr |-> 1, start |-> 0, end |-> MaxPos]]
    /\ min_overlap_bp = 1
    /\ min_group_size = 1
    /\ engine \in {"simple", "optimized"}
    /\ max_workers = 0
    /\ pc = "returned"
    /\ calls = 1
    /\ triangulation_groups \in GroupLists
    /\ groups_at_call = <<>>
    /\ keys = <<>>
    /\ next_key = 1
    /\ all_groups = <<>>
    /\ task = <<>>
    /\ results = <<>>
    /\ failed = {}
    /\ result = triangulation_groups
    /\ report = NoReport
    /\ completion_order = <<>>
    /\ previous_report = NoReport
    /\ export_data = <<>>
    /\ db = <<>>
    /\ min_cm = "0"
    /\ max_cm = "0"
    /\ verify_segments = <<>>
    /\ verify_result = <<>>
    /\ NoRuns

ReportNext ==
    \/ CreateReportBySizeSimple
    \/ CreateReportBySizeOptimized
    \/ CreateSimpleGroupList

SpecReport == ReportInit /\ [][ReportNext]_vars

\* The engine object in use: one detect run, then report calls.
RunThenReportNext ==
    \/ /\ report = NoReport
       /\ calls = 0 \/ ~Quiescent
       /\ Next
    \/ ReportNext

SpecRunThenReport == Init /\ [][RunThenReportNext]_vars

\* --- the three-segment chromosome: A = 0..10,000,000, B = 5,000,000..15,000,000,
\* C = 20,000,000..30,000,000, in every row order, with min_group_size = 2
ExampleA == [chr |-> 1, start |-> 0, end |-> 10000000]
ExampleB == [chr |-> 1, start |-> 5000000, end |-> 15000000]
ExampleC == [chr |-> 1, start |-> 20000000, end |-> 30000000]
ExampleFrames ==
    {d \in [1..3 -> {ExampleA, ExampleB, ExampleC}] : Range(d) = {ExampleA, ExampleB, ExampleC}}

ExampleInit ==
    /\ data \in ExampleFrames
    /\ min_overlap_bp \in {1000000, 6000000}
    /\ min_group_size = 2
    /\ engine \in {"simple", "optimized"}
    /\ max_workers = 0
    /\ pc = "idle"
    /\ calls = 0
    /\ triangulation_groups = <<>>
    /\ groups_at_call = <<>>
    /\ keys = <<>>
    /\ next_key = 1
    /\ all_groups = <<>>
    /\ task = <<>>
    /\ results = <<>>
    /\ failed = {}
    /\ result = <<>>
    /\ report = NoReport
    /\ completion_order = <<>>
    /\ previous_report = NoReport
    /\ export_data = <<>>
    /\ db = <<>>
    /\ min_cm = "0"
    /\ max_cm = "0"
    /\ verify_segments = <<>>
    /\ verify_result = <<>>
    /\ NoRuns

SpecExample == ExampleInit /\ [][Next]_vars

\* --- DNAChromosomeBrowser.detect_triangulation_groups (src/painter.py), the
\* "original" engine.  Its rows carry the Match Name the duplicate test reads.
NamedRows == {r \in [chr : 1..NumChr, start : 0..(MaxPos - 1), end : 1..MaxPos,
                      name : 1..MaxNames] : r.end > r.start}
NamedFrames == UNION {[1..n -> NamedRows] : n \in 0..MaxOrigSegs}

\* self.data['Chromosome'].unique(): the keys in order of first appearance
RECURSIVE UniqueKeysFrom(_, _, _)
UniqueKeysFrom(d, k, seen) ==
    IF k > Len(d) THEN seen
    ELSE UniqueKeysFrom(d, k + 1,
                        IF d[k].chr \in Range(seen) THEN seen ELSE Append(seen, d[k].chr))

UniqueKeys(d) == UniqueKeysFrom(d, 1, <<>>)

\* overlap_length = max(0, overlap_end - overlap_start)
OverlapLengthOriginal(d, i, j) ==
    Max(0, Min(d[i].end, d[j].end) - Max(d[i].start, d[j].start))

\* Inner loop "for j, row2 in chr_data.iterrows()" of the seed with index label
\* i: i and j are index labels, and "if i >= j: continue" compares the labels.
RECURSIVE CollectOriginal(_, _, _, _, _, _)
CollectOriginal(d, chr_data, T, i, k, current_group) ==
    IF k > Len(chr_data) THEN current_group
    ELSE LET j == chr_data[k]
             found_in_group == \E m \in 1..Len(current_group) : current_group[m] = j
         IN IF i >= j THEN CollectOriginal(d, chr_data, T, i, k + 1, current_group)
            ELSE IF OverlapLengthOriginal(d, i, j) >= T /\ ~found_in_group
                 THEN CollectOriginal(d, chr_data, T, i, k + 1, Append(current_group, j))
            ELSE CollectOriginal(d, chr_data, T, i, k + 1, current_group)

\* group_names = set(member['Match Name'] for member in current_group)
GroupNames(d, group) == {d[group[m]].name : m \in 1..Len(group)}

\* Outer loop "for i, row1 in chr_data.iterrows()": every row is a seed; a group
\* of at least G rows is kept unless a kept group has the same set of names.
RECURSIVE OriginalLoop(_, _, _, _, _, _)
OriginalLoop(d, chr_data, T, G, k, groups) ==
    IF k > Len(chr_data) THEN groups
    ELSE LET current_group == CollectOriginal(d, chr_data, T, chr_data[k], 1,
                                              <<chr_data[k]>>)
             is_duplicate == \E e \in 1..Len(groups) :
                                 GroupNames(d, groups[e]) = GroupNames(d, current_group)
         IN OriginalLoop(d, chr_data, T, G, k + 1,
                         IF Len(current_group) >= G /\ ~is_duplicate
                         THEN Append(groups, current_group) ELSE groups)

\* chr_data = self.data[self.data['Chromosome'] == chromosome]
\*                .sort_values('Start Location')
OriginalChromosome(d, c, T, G) ==
    OriginalLoop(d, SortByStart(d, ChrRows(d, c)), T, G, 1, <<>>)

DetectOriginal(d, T, G) ==
    Flatten([k \in 1..Len(UniqueKeys(d)) |-> OriginalChromosome(d, UniqueKeys(d)[k], T, G)])

\* The whole method: no worker, no step at which another caller sees the object.
CallOriginal ==
    /\ engine = "original"
    /\ Quiescent
    /\ calls < MaxCalls
    /\ calls' = calls + 1
    /\ groups_at_call' = triangulation_groups
    /\ triangulation_groups' = DetectOriginal(data, min_overlap_bp, min_group_size)
    /\ result' = triangulation_groups'
    /\ pc' = "returned"
    /\ UNCHANGED <<data, min_overlap_bp, min_group_size, engine, max_workers, keys,
                   next_key, all_groups, task, results, failed, report,
                   completion_order, previous_report, export_data, gui_vars,
                   verify_vars, run_vars>>

OriginalInit ==
    /\ data \in NamedFrames
    /\ min_overlap_bp \in 0..MaxPos
    /\ min_group_size \in 1..MaxGroupSize
    /\ engine = "original"
    /\ max_workers = 0
    /\ pc = "idle"
    /\ calls = 0
    /\ triangulation_groups = <<>>
    /\ groups_at_call = <<>>
    /\ keys = <<>>
    /\ next_key = 1
    /\ all_groups = <<>>
    /\ task = <<>>
    /\ results = <<>>
    /\ failed = {}
    /\ result = <<>>
    /\ report = NoReport
    /\ completion_order = <<>>
    /\ previous_report = NoReport
    /\ export_data = <<>>
    /\ db = <<>>
    /\ min_cm = "0"
    /\ max_cm = "0"
    /\ verify_segments = <<>>
    /\ verify_result = <<>>
    /\ NoRuns

OriginalNext == CallOriginal

SpecOriginal == OriginalInit /\ [][OriginalNext]_vars

\* --- DNAAnalysisGUI.run_triangulation (src/dna_gui_main.py)
\* A stored segment carries its centimorgans; import_csv_data stores no two
\* rows with the same match name, chromosome, start and end; get_all_segments
\* returns the rows ORDER BY chromosome, start_location.
GuiRows == {r \in [chr : 1..NumChr, start : 0..(MaxPos - 1), end : 1..MaxPos,
                    name : 1..MaxNames, cm : 0..MaxCm] : r.end > r.start}
GuiFrames ==
    {d \in UNION {[1..n -> GuiRows] : n \in 0..MaxGuiSegs} :
        /\ \A i \in 1..(Len(d) - 1) :
              \/ d[i].chr < d[i + 1].chr
              \/ d[i].chr = d[i + 1].chr /\ d[i].start <= d[i + 1].start
        /\ \A i, j \in 1..Len(d) :
              (/\ d[i].name = d[j].name /\ d[i].chr = d[j].chr
               /\ d[i].start = d[j].start /\ d[i].end = d[j].end) => i = j}

\* What the user may have typed in a cM entry: nothing, or a number.
CmTexts == {""} \cup {ToString(n) : n \in 0..MaxCm}
Algorithms == {"simple", "optimized", "original"}

\* float(text): a ValueError unless the text is a number ...
IsFloat(text) == \E n \in 0..MaxCm : ToString(n) = text
\* ... and else the number written.
FloatValue(text) == CHOOSE n \in 0..MaxCm : ToString(n) = text

\* The cM filter with both comparisons strict.
CmFilterExclusive(df, min_text, max_text) ==
    LET by_min == IF FloatValue(min_text) > 0
                  THEN SelectSeq(df, LAMBDA r : r.cm > FloatValue(min_text))
                  ELSE df
    IN IF max_text # ""
       THEN SelectSeq(by_min, LAMBDA r : r.cm < FloatValue(max_text))
       ELSE by_min

\* Lines 644-649: min_cm = float(text); max_cm = float(text) if text else inf;
\* the lower bound is applied if min_cm > 0, the upper one if max_cm < inf.
CmFilter(df, min_text, max_text) ==
    LET by_min == IF FloatValue(min_text) > 0
                  THEN SelectSeq(df, LAMBDA r : r.cm >= FloatValue(min_text))
                  ELSE df
    IN IF max_text # ""
       THEN SelectSeq(by_min, LAMBDA r : r.cm <= FloatValue(max_text))
       ELSE by_min

\* detect_triangulation_simple as one call
DetectSimple(d, T, G) ==
    Flatten([k \in 1..Len(GroupbyKeys(d)) |->
                LET chr_data == ChrRows(d, GroupbyKeys(d)[k])
                IN IF Len(chr_data) < G THEN <<>>
                   ELSE FindOverlappingGroupsSimple(d, chr_data, T, G)])

\* detect_triangulation_groups_optimized as one call
DetectOptimized(d, T, G) ==
    PoolMapValue([k \in 1..Len(ArgsList(d, G)) |->
                     ProcessChromosomeOptimized(d, ChrRows(d, ArgsList(d, G)[k]), T, G)])

GuiReady == pc \in {"idle", "returned", "raised", "parameter_error", "no_data",
                    "no_segments"}

\* The button handler up to analysis_thread.start(), or to one of its returns.
RunTriangulation(min_text, max_text, algorithm) ==
    /\ GuiReady
    /\ calls < MaxCalls
    /\ calls' = calls + 1
    /\ min_cm' = min_text
    /\ max_cm' = max_text
    /\ engine' = algorithm
    /\ IF ~IsFloat(min_text) \/ (max_text # "" /\ ~IsFloat(max_text))
       THEN pc' = "parameter_error" /\ UNCHANGED data
       ELSE IF db = <<>>
            THEN pc' = "no_data" /\ UNCHANGED data
       ELSE LET df == CmFilter(db, min_text, max_text)
            IN IF df = <<>>
               THEN pc' = "no_segments" /\ UNCHANGED data
               ELSE pc' = "analysis" /\ data' = df
    /\ UNCHANGED <<min_overlap_bp, min_group_size, max_workers, triangulation_groups,
                   groups_at_call, keys, next_key, all_groups, task, results, failed,
                   result, report, completion_order, previous_report, export_data,
                   db, verify_vars, run_vars>>

\* run_analysis in its thread: the chosen engine runs on df and returns.
RunAnalysis ==
    /\ pc = "analysis"
    /\ result' = IF engine = "simple"
                 THEN DetectSimple(data, min_overlap_bp, min_group_size)
                 ELSE IF engine = "optimized"
                      THEN DetectOptimized(data, min_overlap_bp, min_group_size)
                 ELSE DetectOriginal(data, min_overlap_bp, min_group_size)
    /\ triangulation_groups' = result'
    /\ pc' = "returned"
    /\ UNCHANGED <<data, min_overlap_bp, min_group_size, engine, max_workers, calls,
                   groups_at_call, keys, next_key, all_groups, task, results, failed,
                   report, completion_order, previous_report, export_data, gui_vars,
                   verify_vars, run_vars>>

\* run_analysis: the engine raises, the except branch reports the error.
AnalysisRaises ==
    /\ pc = "analysis"
    /\ pc' = "raised"
    /\ UNCHANGED <<data, min_overlap_bp, min_group_size, engine, max_workers, calls,
                   triangulation_groups, groups_at_call, keys, next_key, all_groups,
                   task, results, failed, result, report, completion_order,
                   previous_report, export_data, gui_vars, verify_vars, run_vars>>

\* The window as built: entries at their defaults, Min Overlap 1.0 Mb (one unit
\* of position here), Min Group Size 2.
GuiInit ==
    /\ db \in GuiFrames
    /\ data = <<>>
    /\ min_overlap_bp = 1
    /\ min_group_size = 2
    /\ engine = "simple"
    /\ max_workers = 0
    /\ pc = "idle"
    /\ calls = 0
    /\ triangulation_groups = <<>>
    /\ groups_at_call = <<>>
    /\ keys = <<>>
    /\ next_key = 1
    /\ all_groups = <<>>
    /\ task = <<>>
    /\ results = <<>>
    /\ failed = {}
    /\ result = <<>>
    /\ report = NoReport
    /\ completion_order = <<>>
    /\ previous_report = NoReport
    /\ export_data = <<>>
    /\ min_cm = "0"
    /\ max_cm = "0"
    /\ verify_segments = <<>>
    /\ verify_result = <<>>
    /\ NoRuns

\* One press of the button and the analysis it starts.
GuiNext ==
    \/ /\ calls = 0
       /\ \E min_text \in CmTexts, max_text \in CmTexts, algorithm \in Algorithms :
              RunTriangulation(min_text, max_text, algorithm)
    \/ RunAnalysis
    \/ AnalysisRaises

SpecGui == GuiInit /\ [][GuiNext]_vars

\* --- OptimizedTriangulationEngine.export_optimized_results
MinOver(S) == CHOOSE x \in S : \A y \in S : x <= y
MaxOver(S) == CHOOSE x \in S : \A y \in S : x >= y

\* The records with Group_Start taken from the group's first member.
ExportRecordsFirstMember(d, groups) ==
    Flatten([group_id \in 1..Len(groups) |->
        LET group == groups[group_id]
            max_end == MaxOver({d[group[m]].end : m \in 1..Len(group)})
        IN [m \in 1..Len(group) |->
               [Group_ID |-> group_id, Group_Size |-> Len(group),
                Group_Start |-> d[group[1]].start, Group_End |-> max_end,
                member |-> group[m],
                Start_Location |-> d[group[m]].start,
                End_Location |-> d[group[m]].end]]])

\* export_data after the loops of lines 377-397: for each group, numbered from
\* 1, one record per member.
ExportRecords(d, groups) ==
    Flatten([group_id \in 1..Len(groups) |->
        LET group == groups[group_id]
            min_start == MinOver({d[group[m]].start : m \in 1..Len(group)})
            max_end == MaxOver({d[group[m]].end : m \in 1..Len(group)})
        IN [m \in 1..Len(group) |->
               [Group_ID |-> group_id, Group_Size |-> Len(group),
                Group_Start |-> min_start, Group_End |-> max_end,
                member |-> group[m],
                Start_Location |-> d[group[m]].start,
                End_Location |-> d[group[m]].end]]])

\* With no stored group the method prints and returns: nothing is written.
ExportOptimizedResults ==
    /\ engine = "optimized"
    /\ Quiescent
    /\ export_data' = IF triangulation_groups = <<>> THEN export_data
                      ELSE ExportRecords(data, triangulation_groups)
    /\ UNCHANGED <<data, min_overlap_bp, min_group_size, engine, max_workers, pc, calls,
                   triangulation_groups, groups_at_call, keys, next_key, all_groups,
                   task, results, failed, result, report, completion_order,
                   previous_report, gui_vars, verify_vars, run_vars>>

\* An optimized engine object holding a group list over a frame of one
\* chromosome.
ExportInit ==
    /\ data \in [1..MaxMembers -> {r \in Rows : r.chr = 1}]
    /\ min_overlap_bp = 1
    /\ min_group_size = 1
    /\ engine = "optimized"
    /\ max_workers = 0
    /\ pc = "returned"
    /\ calls = 1
    /\ triangulation_groups \in GroupLists
    /\ groups_at_call = <<>>
    /\ keys = <<>>
    /\ next_key = 1
    /\ all_groups = <<>>
    /\ task = <<>>
    /\ results = <<>>
    /\ failed = {}
    /\ result = triangulation_groups
    /\ report = NoReport
    /\ completion_order = <<>>
    /\ previous_report = NoReport
    /\ export_data = <<>>
    /\ db = <<>>
    /\ min_cm = "0"
    /\ max_cm = "0"
    /\ verify_segments = <<>>
    /\ verify_result = <<>>
    /\ NoRuns

ExportNext == ExportOptimizedResults

SpecExport == ExportInit /\ [][ExportNext]_vars

\* --- OptimizedTriangulationEngine._verify_triangulation_group, the strict pass.
\* segs is the candidate list, a sequence of [start, end] records; a candidate
\* is identified by its position in segs and the returned list is a sequence of
\* positions.
Candidates == {r \in [start : 0..(MaxPos - 1), end : 1..MaxPos] : r.end > r.start}
CandidateLists == UNION {[1..n -> Candidates] : n \in 0..VerifyMaxLen}

\* actual_overlap = max(0, overlap_end - overlap_start)
ActualOverlapVerify(segs, a, b) ==
    Max(0, Min(segs[a].end, segs[b].end) - Max(segs[a].start, segs[b].start))

\* The loop of lines 164-177 testing a candidate against the last valid segment only.
RECURSIVE VerifySmallLastOnly(_, _, _, _)
VerifySmallLastOnly(segs, T, k, valid_segments) ==
    IF k > Len(segs) THEN valid_segments
    ELSE IF ActualOverlapVerify(segs, k, valid_segments[Len(valid_segments)]) >= T
         THEN VerifySmallLastOnly(segs, T, k + 1, Append(valid_segments, k))
    ELSE VerifySmallLastOnly(segs, T, k + 1, valid_segments)

\* "for candidate in segments[1:]": the candidate at position k is appended if
\* it overlaps a segment already in valid_segments by at least T.
RECURSIVE VerifySmall(_, _, _, _)
VerifySmall(segs, T, k, valid_segments) ==
    IF k > Len(segs) THEN valid_segments
    ELSE LET overlaps_with_valid_group ==
                 \E v \in 1..Len(valid_segments) :
                     ActualOverlapVerify(segs, k, valid_segments[v]) >= T
         IN VerifySmall(segs, T, k + 1,
                        IF overlaps_with_valid_group THEN Append(valid_segments, k)
                        ELSE valid_segments)

\* An adjacency in which every two candidates are neighbours.
AdjacencyComplete(segs, T) ==
    [i \in 1..Len(segs) |-> (1..Len(segs)) \ {i}]

\* adjacency[i]: the candidates that overlap candidate i by at least T
Adjacency(segs, T) ==
    [i \in 1..Len(segs) |->
        {j \in (1..Len(segs)) \ {i} : ActualOverlapVerify(segs, i, j) >= T}]

\* "while stack": pop the last node; a node not yet visited joins the component
\* and its unvisited neighbours are pushed (a set of small ints iterates in
\* ascending order).
RECURSIVE DepthFirst(_, _, _, _)
DepthFirst(adjacency, stack, visited, component) ==
    IF stack = <<>> THEN [component |-> component, visited |-> visited]
    ELSE LET node == stack[Len(stack)]
             rest == SubSeq(stack, 1, Len(stack) - 1)
         IN IF node \in visited
            THEN DepthFirst(adjacency, rest, visited, component)
            ELSE DepthFirst(adjacency,
                            rest \o SetToSortedSeq(adjacency[node] \ (visited \cup {node})),
                            visited \cup {node}, Append(component, node))

\* The loop over start nodes keeping the first component it finds.
RECURSIVE ComponentsLoopFirst(_, _, _, _, _)
ComponentsLoopFirst(adjacency, n, start_node, visited, largest_component) ==
    IF start_node > n THEN largest_component
    ELSE IF start_node \in visited
         THEN ComponentsLoopFirst(adjacency, n, start_node + 1, visited, largest_component)
    ELSE LET dfs == DepthFirst(adjacency, <<start_node>>, visited, <<>>)
         IN ComponentsLoopFirst(adjacency, n, start_node + 1, dfs.visited,
                                IF largest_component = <<>>
                                THEN dfs.component ELSE largest_component)

\* "for start_node in range(len(segments))": the component of each node not yet
\* visited; a component replaces largest_component only if it is longer.
RECURSIVE ComponentsLoop(_, _, _, _, _)
ComponentsLoop(adjacency, n, start_node, visited, largest_component) ==
    IF start_node > n THEN largest_component
    ELSE IF start_node \in visited
         THEN ComponentsLoop(adjacency, n, start_node + 1, visited, largest_component)
    ELSE LET dfs == DepthFirst(adjacency, <<start_node>>, visited, <<>>)
         IN ComponentsLoop(adjacency, n, start_node + 1, dfs.visited,
                           IF Len(dfs.component) > Len(largest_component)
                           THEN dfs.component ELSE largest_component)

FindConnectedComponents(segs, T) ==
    IF Len(segs) < 2 THEN [k \in 1..Len(segs) |-> k]
    ELSE ComponentsLoop(Adjacency(segs, T), Len(segs), 1, {}, <<>>)

VerifyTriangulationGroup(segs, T) ==
    IF Len(segs) < 2 THEN [k \in 1..Len(segs) |-> k]
    ELSE IF Len(segs) <= SmallGroupLimit THEN VerifySmall(segs, T, 2, <<1>>)
    ELSE FindConnectedComponents(segs, T)

\* One call of the static method.
CallVerify ==
    /\ pc = "idle"
    /\ verify_result' = VerifyTriangulationGroup(verify_segments, min_overlap_bp)
    /\ pc' = "returned"
    /\ UNCHANGED <<data, min_overlap_bp, min_group_size, engine, max_workers, calls,
                   triangulation_groups, groups_at_call, keys, next_key, all_groups,
                   task, results, failed, result, report, completion_order,
                   previous_report, export_data, gui_vars, verify_segments, run_vars>>

VerifyInit ==
    /\ verify_segments \in CandidateLists
    /\ min_overlap_bp \in 0..MaxPos
    /\ verify_result = <<>>
    /\ NoRuns
    /\ data = <<>>
    /\ min_group_size = 2
    /\ engine = "optimized"
    /\ max_workers = 0
    /\ pc = "idle"
    /\ calls = 0
    /\ triangulation_groups = <<>>
    /\ groups_at_call = <<>>
    /\ keys = <<>>
    /\ next_key = 1
    /\ all_groups = <<>>
    /\ task = <<>>
    /\ results = <<>>
    /\ failed = {}
    /\ result = <<>>
    /\ report = NoReport
    /\ completion_order = <<>>
    /\ previous_report = NoReport
    /\ export_data = <<>>
    /\ db = <<>>
    /\ min_cm = "0"
    /\ max_cm = "0"

VerifyNext == CallVerify

SpecVerify == VerifyInit /\ [][VerifyNext]_vars

\* --- detect calls on one chromosome whose rows come in any order, with room
\* for three different starts
OrderRows == {r \in [chr : {1}, start : 0..(MaxOrderPos - 1), end : 1..MaxOrderPos] :
                 r.end > r.start}
OrderFrames == UNION {[1..n -> OrderRows] : n \in 0..MaxOrderSegs}

OrderInit ==
    /\ data \in OrderFrames
    /\ min_overlap_bp \in 1..MaxOrderPos
    /\ min_group_size \in 2..MaxGroupSize
    /\ engine \in {"simple", "optimized"}
    /\ max_workers = 0
    /\ pc = "idle"
    /\ calls = 0
    /\ triangulation_groups = <<>>
    /\ groups_at_call = <<>>
    /\ keys = <<>>
    /\ next_key = 1
    /\ all_groups = <<>>
    /\ task = <<>>
    /\ results = <<>>
    /\ failed = {}
    /\ result = <<>>
    /\ report = NoReport
    /\ completion_order = <<>>
    /\ previous_report = NoReport
    /\ export_data = <<>>
    /\ db = <<>>
    /\ min_cm = "0"
    /\ max_cm = "0"
    /\ verify_segments = <<>>
    /\ verify_result = <<>>
    /\ NoRuns

SpecOrder == OrderInit /\ [][Next]_vars

\* --- DNAAnalysisGUI: analyses started from the Analysis tab, their threads,
\* the callbacks they schedule and the export button (src/dna_gui_main.py).
\* In this part a group is the list of its segments' rows, as the engines
\* return it, since two analyses may run on different frames.
\* The stored segments of this part lie on one chromosome and span the same
\* region; they differ in match name and centimorgans.
RunRows == [chr : {1}, start : {0}, end : {MaxPos}, name : 1..MaxNames,
            cm : 0..MaxRunCm]
RunFiles == UNION {[1..n -> RunRows] : n \in 1..MaxRunSegs}

\* import_csv_data, one row of the file: a row whose match name, chromosome,
\* start and end are already stored is skipped; get_all_segments returns the
\* stored rows ORDER BY chromosome, start_location (equal keys in the order
\* they were stored).
StoreRow(stored, row) ==
    IF \E i \in 1..Len(stored) :
           /\ stored[i].name = row.name /\ stored[i].chr = row.chr
           /\ stored[i].start = row.start /\ stored[i].end = row.end
    THEN stored
    ELSE LET before == SelectSeq(stored, LAMBDA r :
                           r.chr < row.chr \/ (r.chr = row.chr /\ r.start <= row.start))
             after == SelectSeq(stored, LAMBDA r :
                           ~(r.chr < row.chr \/ (r.chr = row.chr /\ r.start <= row.start)))
         IN before \o <<row>> \o after

RECURSIVE StoreRows(_, _)
StoreRows(stored, file) ==
    IF file = <<>> THEN stored
    ELSE StoreRows(StoreRow(stored, Head(file)), Tail(file))

RunMinTexts == {ToString(n) : n \in 0..MaxRunCm}
RunMaxTexts == {""} \cup {ToString(n) : n \in 0..MaxRunCm}
ReportFormats == {"Detailed (For Assignment)", "Quick Summary"}

\* The groups of row labels of frame d as lists of rows.
GroupDicts(d, groups) ==
    [a \in 1..Len(groups) |-> [k \in 1..Len(groups[a]) |-> d[groups[a][k]]]]

\* What an analysis of df with the given algorithm returns when nothing
\* interferes with it.
DetectWith(algorithm, df, T, G) ==
    GroupDicts(df, IF algorithm = "simple" THEN DetectSimple(df, T, G)
                   ELSE IF algorithm = "optimized" THEN DetectOptimized(df, T, G)
                   ELSE DetectOriginal(df, T, G))

\* The engines' answers on every frame a press of the button can hand them,
\* with the window's Min Overlap and Min Group Size, as one explicit table: what
\* a detect call returns is a function of its arguments.
EngineAnswers ==
    [algorithm \in Algorithms,
     df \in UNION {[1..n -> RunRows] : n \in 0..MaxRunSegs},
     T \in {1}, G \in {2} |-> DetectWith(algorithm, df, T, G)] @@ <<>>

\* generate_original_report(groups)
OriginalReport(groups) ==
    IF groups = <<>>
    THEN [text |-> "No triangulation groups found with the current parameters.",
          summary |-> <<>>, entries |-> <<>>]
    ELSE [text |-> "TRIANGULATION ANALYSIS RESULTS (Original Algorithm)",
          summary |-> <<Len(groups)>>,
          entries |-> [i \in 1..Len(groups) |->
                          [rank |-> i, people |-> Len(groups[i]), group |-> groups[i]]]]

\* export_optimized_results on groups held as lists of rows: the rows are
\* numbered in the order the groups list them.
ExportGroupDicts(groups) ==
    ExportRecords(Flatten(groups),
                  [a \in 1..Len(groups) |->
                      [k \in 1..Len(groups[a]) |->
                          Len(Flatten(SubSeq(groups, 1, a - 1))) + k]])

\* show_triangulation_error without its call of progress_bar.stop().
ProgressBarAfterErrorKeeps(callback, bar) ==
    IF callback.kind = "error" THEN bar ELSE "stopped"

\* update_triangulation_results and show_triangulation_error both begin with
\* self.progress_bar.stop().
ProgressBarAfter(callback, bar) == "stopped"

\* update_triangulation_results replaces the pane's content by results_text;
\* show_triangulation_error appends the error to what the pane shows.
PaneAfter(callback, pane) ==
    IF callback.kind = "update" THEN [kind |-> "results", report |-> callback.report]
    ELSE [kind |-> "error", report |-> pane.report]

\* self.root.update(): the callbacks already scheduled run, oldest first.
RECURSIVE DrainCallbacks(_, _)
DrainCallbacks(queue, st) ==
    IF queue = <<>> THEN st
    ELSE DrainCallbacks(Tail(queue),
                        [pane |-> PaneAfter(Head(queue), st.pane),
                         bar |-> ProgressBarAfter(Head(queue), st.bar)])

AllFinished == \A t \in 1..Len(threads) : threads[t].phase = "finished"

\* run_triangulation: the parameters are parsed, the stored segments read and
\* filtered, the pane cleared, the bar started, root.update() called and the
\* analysis thread started; or the handler returns early.
StartRun(min_text, max_text, algorithm) ==
    /\ calls' = calls + 1
    /\ IF ~IsFloat(min_text) \/ (max_text # "" /\ ~IsFloat(max_text))
       THEN /\ pc' = "parameter_error"
            /\ UNCHANGED <<threads, after_queue, progress_bar, analysis_results>>
       ELSE IF db = <<>>
            THEN /\ pc' = "no_data"
                 /\ UNCHANGED <<threads, after_queue, progress_bar, analysis_results>>
       ELSE LET df == CmFilter(db, min_text, max_text)
                started == DrainCallbacks(after_queue,
                               [pane |-> [kind |-> "starting", report |-> NoReport],
                                bar |-> "running"])
            IN IF df = <<>>
               THEN /\ pc' = "no_segments"
                    /\ analysis_results' = [kind |-> "no_segments", report |-> NoReport]
                    /\ UNCHANGED <<threads, after_queue, progress_bar>>
               ELSE /\ pc' = "analysis"
                    /\ analysis_results' = started.pane
                    /\ progress_bar' = started.bar
                    /\ after_queue' = <<>>
                    /\ threads' = Append(threads,
                          [algorithm |-> algorithm, df |-> df,
                           phase |-> IF algorithm = "original" THEN "assign_data"
                                     ELSE "detect",
                           groups |-> <<>>, keys |-> <<>>, next_key |-> 1,
                           outcome |-> "none", results_text |-> NoReport,
                           overlapped |-> ~AllFinished])
    /\ UNCHANGED <<data, min_overlap_bp, min_group_size, engine, max_workers,
                   triangulation_groups, groups_at_call, keys, next_key, all_groups,
                   task, results, failed, result, report, completion_order,
                   previous_report, export_data, gui_vars, verify_vars,
                   engine_groups, browser_data, latest_completed, export_expected>>

\* What a step of a thread leaves alone.
ThreadFrame ==
    UNCHANGED <<data, min_overlap_bp, min_group_size, engine, max_workers, pc, calls,
                triangulation_groups, groups_at_call, keys, next_key, all_groups,
                task, results, failed, result, report, completion_order,
                previous_report, export_data, gui_vars, verify_vars,
                progress_bar, analysis_results, export_expected>>

\* run_analysis, simple or optimized: the engine's detect call on the thread's
\* df; it ends by assigning self.triangulation_groups of the shared engine.
DetectInThread(t) ==
    /\ threads[t].phase = "detect"
    /\ LET groups == EngineAnswers[threads[t].algorithm, threads[t].df,
                                   min_overlap_bp, min_group_size]
       IN /\ threads' = [threads EXCEPT ![t].groups = groups, ![t].phase = "report"]
          /\ engine_groups' = [engine_groups EXCEPT ![threads[t].algorithm] = groups]
    /\ UNCHANGED <<after_queue, browser_data, latest_completed>>
    /\ ThreadFrame

\* run_analysis, original: self.browser.data = df.rename(...)
OriginalAssignData(t) ==
    /\ threads[t].phase = "assign_data"
    /\ browser_data' = threads[t].df
    /\ threads' = [threads EXCEPT ![t].phase = "keys"]
    /\ UNCHANGED <<after_queue, engine_groups, latest_completed>>
    /\ ThreadFrame

\* detect_triangulation_groups: for chromosome in self.data['Chromosome'].unique()
OriginalReadKeys(t) ==
    /\ threads[t].phase = "keys"
    /\ threads' = [threads EXCEPT ![t].keys = UniqueKeys(browser_data),
                                  ![t].next_key = 1,
                                  ![t].phase = IF UniqueKeys(browser_data) = <<>>
                                               THEN "report" ELSE "chromosome"]
    /\ UNCHANGED <<after_queue, engine_groups, browser_data, latest_completed>>
    /\ ThreadFrame

\* One iteration of that loop: chr_data is read from self.data as it is now.
OriginalChromosomeStep(t) ==
    /\ threads[t].phase = "chromosome"
    /\ LET c == threads[t].keys[threads[t].next_key]
           found == GroupDicts(browser_data,
                               OriginalChromosome(browser_data, c, min_overlap_bp,
                                                  min_group_size))
       IN threads' = [threads EXCEPT
                         ![t].groups = threads[t].groups \o found,
                         ![t].next_key = threads[t].next_key + 1,
                         ![t].phase = IF threads[t].next_key = Len(threads[t].keys)
                                      THEN "report" ELSE "chromosome"]
    /\ UNCHANGED <<after_queue, engine_groups, browser_data, latest_completed>>
    /\ ThreadFrame

\* run_analysis: results_text is built; the simple and the optimized branch read
\* self.triangulation_groups of the shared engine, the original one its own groups.
ReportInThread(t) ==
    /\ threads[t].phase = "report"
    /\ \E report_format \in ReportFormats :
          threads' = [threads EXCEPT
              ![t].phase = "schedule",
              ![t].outcome = "update",
              ![t].results_text =
                  IF threads[t].algorithm = "simple"
                  THEN ReportBySize("SIMPLE DNA TRIANGULATION GROUPS - SORTED BY SIZE",
                                    engine_groups.simple)
                  ELSE IF threads[t].algorithm = "optimized"
                       THEN IF report_format = "Quick Summary"
                            THEN SimpleGroupList(engine_groups.optimized)
                            ELSE ReportBySize("DNA TRIANGULATION GROUPS - SORTED BY SIZE",
                                              engine_groups.optimized)
                  ELSE OriginalReport(threads[t].groups)]
    /\ UNCHANGED <<after_queue, engine_groups, browser_data, latest_completed>>
    /\ ThreadFrame

\* run_analysis: the engine call raises and the except branch takes over.
ThreadRaises(t) ==
    /\ threads[t].phase \in {"detect", "keys", "chromosome"}
    /\ threads' = [threads EXCEPT ![t].phase = "schedule", ![t].outcome = "error"]
    /\ UNCHANGED <<after_queue, engine_groups, browser_data, latest_completed>>
    /\ ThreadFrame

\* self.root.after(0, self.update_triangulation_results, results_text), or
\* self.root.after(0, self.show_triangulation_error, error_msg); the thread ends.
ScheduleCallback(t) ==
    /\ threads[t].phase = "schedule"
    /\ after_queue' = Append(after_queue, [kind |-> threads[t].outcome,
                                           report |-> threads[t].results_text])
    /\ threads' = [threads EXCEPT ![t].phase = "finished"]
    /\ latest_completed' = IF threads[t].outcome = "update" THEN threads[t].groups
                           ELSE latest_completed
    /\ UNCHANGED <<engine_groups, browser_data>>
    /\ ThreadFrame

\* Any step of thread t.
ThreadStep(t) ==
    /\ t \in 1..Len(threads)
    /\ \/ DetectInThread(t)
       \/ OriginalAssignData(t)
       \/ OriginalReadKeys(t)
       \/ OriginalChromosomeStep(t)
       \/ ReportInThread(t)
       \/ ThreadRaises(t)
       \/ ScheduleCallback(t)

\* The main loop runs the oldest scheduled callback.
RunCallback ==
    /\ after_queue # <<>>
    /\ analysis_results' = PaneAfter(Head(after_queue), analysis_results)
    /\ progress_bar' = ProgressBarAfter(Head(after_queue), progress_bar)
    /\ after_queue' = Tail(after_queue)
    /\ UNCHANGED <<data, min_overlap_bp, min_group_size, engine, max_workers, pc, calls,
                   triangulation_groups, groups_at_call, keys, next_key, all_groups,
                   task, results, failed, result, report, completion_order,
                   previous_report, export_data, gui_vars, verify_vars,
                   threads, engine_groups, browser_data, latest_completed,
                   export_expected>>

\* export_triangulation_results: a warning if self.optimized_engine holds no
\* groups; else the file dialog, and unless it is cancelled
\* self.optimized_engine.export_optimized_results(filename).
ExportTriangulationResults ==
    /\ export_expected' = [groups |-> latest_completed,
                           quiet |-> AllFinished /\ after_queue = <<>>]
    /\ IF engine_groups.optimized = <<>>
       THEN pc' = "no_results" /\ UNCHANGED export_data
       ELSE \/ pc' = "export_cancelled" /\ UNCHANGED export_data
            \/ /\ pc' = "exported"
               /\ export_data' = ExportGroupDicts(engine_groups.optimized)
    /\ UNCHANGED <<data, min_overlap_bp, min_group_size, engine, max_workers, calls,
                   triangulation_groups, groups_at_call, keys, next_key, all_groups,
                   task, results, failed, result, report, completion_order,
                   previous_report, gui_vars, verify_vars,
                   threads, after_queue, progress_bar, analysis_results,
                   engine_groups, browser_data, latest_completed>>

\* import_csv_file: the rows of a CSV file are stored (here into the empty
\* database).
ImportCsvFile(file) ==
    /\ db = <<>>
    /\ db' = StoreRows(db, file)
    /\ UNCHANGED <<data, min_overlap_bp, min_group_size, engine, max_workers, pc, calls,
                   triangulation_groups, groups_at_call, keys, next_key, all_groups,
                   task, results, failed, result, report, completion_order,
                   previous_report, export_data, min_cm, max_cm, verify_vars, run_vars>>

\* The window as built, Min Overlap 1.0 Mb (one unit of position here) and Min
\* Group Size 2, over an empty database.
RunsInit ==
    /\ db = <<>>
    /\ data = <<>>
    /\ min_overlap_bp = 1
    /\ min_group_size = 2
    /\ engine = "simple"
    /\ max_workers = 0
    /\ pc = "idle"
    /\ calls = 0
    /\ triangulation_groups = <<>>
    /\ groups_at_call = <<>>
    /\ keys = <<>>
    /\ next_key = 1
    /\ all_groups = <<>>
    /\ task = <<>>
    /\ results = <<>>
    /\ failed = {}
    /\ result = <<>>
    /\ report = NoReport
    /\ completion_order = <<>>
    /\ previous_report = NoReport
    /\ export_data = <<>>
    /\ min_cm = "0"
    /\ max_cm = "0"
    /\ verify_segments = <<>>
    /\ verify_result = <<>>
    /\ NoRuns

\* Imports, presses of the run button, the threads and the main loop.
AnalysisNext ==
    \/ \E file \in RunFiles : ImportCsvFile(file)
    \/ /\ calls < MaxRuns
       /\ \E min_text \in RunMinTexts, max_text \in RunMaxTexts,
             algorithm \in Algorithms : StartRun(min_text, max_text, algorithm)
    \/ \E t \in 1..Len(threads) : DetectInThread(t)
    \/ \E t \in 1..Len(threads) : OriginalAssignData(t)
    \/ \E t \in 1..Len(threads) : OriginalReadKeys(t)
    \/ \E t \in 1..Len(threads) : OriginalChromosomeStep(t)
    \/ \E t \in 1..Len(threads) : ReportInThread(t)
    \/ \E t \in 1..Len(threads) : ThreadRaises(t)
    \/ \E t \in 1..Len(threads) : ScheduleCallback(t)
    \/ RunCallback

RunsNext ==
    \/ AnalysisNext
    \/ ExportTriangulationResults

SpecRuns == RunsInit /\ [][RunsNext]_vars

\* The analyses alone, with the threads scheduled and the main loop running
\* the callbacks it is handed.
SpecRunsFair ==
    /\ RunsInit
    /\ [][AnalysisNext]_vars
    /\ \A t \in 1..MaxRuns : WF_vars(ThreadStep(t))
    /\ WF_vars(RunCallback)

\* ================================================================ claims
\* min_overlap_bp > 0 and min_group_size >= 2: the configurations the interface admits
ValidConfig == min_overlap_bp > 0 /\ min_group_size >= 2

\* overlap_bp = max(0, min(end_a, end_b) - max(start_a, start_b)) of two rows of data
OverlapBp(a, b) ==
    Max(0, Min(data[a].end, data[b].end) - Max(data[a].start, data[b].start))

\* No row is a member of two different groups of the list gs.
Disjoint(gs) ==
    \A a, b \in 1..Len(gs) : a # b => Range(gs[a]) \cap Range(gs[b]) = {}

InSomeGroup(gs, r) == \E a \in 1..Len(gs) : r \in Range(gs[a])

\* C1: for min_overlap_bp > 0 and min_group_size >= 2, in the list returned by
\* detect_triangulation_groups_optimized no input row is a member of two
\* different groups.
C1_PartitionOptimized ==
    (pc = "returned" /\ engine = "optimized" /\ ValidConfig) => Disjoint(result)

\* C2: for min_overlap_bp > 0 and min_group_size >= 2, in the list returned by
\* detect_triangulation_simple no input row is a member of two different groups
\* (a segment marked used is never collected by a later seed).
C2_PartitionSimple ==
    (pc = "returned" /\ engine = "simple" /\ ValidConfig) => Disjoint(result)

\* C2's case: a member r of a returned group overlaps a later, ungrouped seed s
\* by at least the threshold, and s's star was built without r.
C2_Witness ==
    /\ pc = "returned" /\ engine = "simple" /\ ValidConfig
    /\ \E a \in 1..Len(result) : \E r \in Range(result[a]) : \E s \in 1..Len(data) :
          /\ s > result[a][1]
          /\ ~InSomeGroup(result, s)
          /\ data[s].chr = data[r].chr
          /\ OverlapBp(s, r) >= min_overlap_bp

\* C3: in every group returned by either engine all members have the same
\* Chromosome value.
C3_ChromosomePurity ==
    pc = "returned" =>
        \A a \in 1..Len(result) : \A r, s \in Range(result[a]) :
            data[r].chr = data[s].chr

\* C3's case: a group is returned while a row of another chromosome overlaps the
\* group's seed by at least the threshold.
C3_Witness ==
    /\ pc = "returned" /\ ValidConfig
    /\ \E a \in 1..Len(result) : \E s \in 1..Len(data) :
          /\ data[s].chr # data[result[a][1]].chr
          /\ OverlapBp(result[a][1], s) >= min_overlap_bp

\* C4: in every group returned by either engine every member other than the
\* first (the seed) overlaps the seed by at least min_overlap_bp; and an overlap
\* exactly equal to min_overlap_bp qualifies: with a valid configuration, a row of
\* the seed's chromosome whose overlap with the seed is exactly min_overlap_bp
\* is in a returned group.
C4_ThresholdCorrectness ==
    pc = "returned" =>
        \A a \in 1..Len(result) :
            /\ \A k \in 2..Len(result[a]) :
                  OverlapBp(result[a][1], result[a][k]) >= min_overlap_bp
            /\ ValidConfig =>
                  \A r \in 1..Len(data) :
                      ( /\ data[r].chr = data[result[a][1]].chr
                        /\ OverlapBp(result[a][1], r) = min_overlap_bp )
                      => InSomeGroup(result, r)

\* C4's case: a returned group has a member whose overlap with the seed is
\* exactly min_overlap_bp.
C4_Witness ==
    /\ pc = "returned" /\ ValidConfig
    /\ \E a \in 1..Len(result) : \E k \in 2..Len(result[a]) :
          OverlapBp(result[a][1], result[a][k]) = min_overlap_bp

\* C5: every group returned by either engine has at least min_group_size members.
C5_MinimumSize ==
    pc = "returned" => \A a \in 1..Len(result) : Len(result[a]) >= min_group_size

\* C5's case: a seed collected a star of two or more rows that is smaller than
\* min_group_size, and the returned list holds neither of them.
C5_Witness ==
    /\ pc = "returned" /\ ValidConfig
    /\ \E s, r \in 1..Len(data) :
          /\ s # r
          /\ data[s].chr = data[r].chr
          /\ OverlapBp(s, r) >= min_overlap_bp
          /\ ~InSomeGroup(result, s)
          /\ ~InSomeGroup(result, r)

\* The membership sets of the groups of gs that lie on chromosome c.
MembershipSets(gs, c) ==
    {Range(gs[a]) : a \in {b \in 1..Len(gs) : data[gs[b][1]].chr = c}}

\* What one process returns for chromosome c when it runs the pass on its own.
ChromosomeGroups(c) ==
    IF Len(ChrRows(data, c)) >= min_group_size
    THEN ProcessChromosomeOptimized(data, ChrRows(data, c), min_overlap_bp, min_group_size)
    ELSE <<>>

\* C6: for fixed input and configuration detect_triangulation_groups_optimized
\* returns the same membership sets per chromosome for every max_workers >= 1
\* and every order in which the workers start and finish the tasks: the
\* returned sets are those of the per-chromosome pass run alone on data.
C6_Determinism ==
    (pc = "returned" /\ engine = "optimized") =>
        \A c \in 1..NumChr :
            MembershipSets(result, c) = MembershipSets(ChromosomeGroups(c), c)

\* C6's case: two workers, two tasks that both return groups, and the task of the
\* second chromosome ended before the task of the first.
C6_Witness ==
    /\ pc = "returned" /\ engine = "optimized" /\ ValidConfig
    /\ max_workers = 2
    /\ completion_order = <<2, 1>>
    /\ results[1] # <<>> /\ results[2] # <<>>

\* C7: a run requested with min_overlap_bp <= 0 or min_group_size < 2 is rejected
\* before any segment is processed: no groups are computed, stored or returned.
C7_ConfigurationRejected ==
    ~ValidConfig =>
        /\ all_groups = <<>>
        /\ \A k \in DOMAIN results : results[k] = <<>>
        /\ triangulation_groups = <<>>
        /\ result = <<>>

\* C8: if the processing of one chromosome raises during
\* detect_triangulation_groups_optimized, the run still returns the groups of
\* every other chromosome (and names the chromosome that failed).  Stated for a
\* valid configuration and a run in which another chromosome has groups.
C8_PartitionFailureIsolated ==
    ( /\ engine = "optimized" /\ ValidConfig
      /\ failed # {} /\ pc # "pool_map"
      /\ \E c \in 1..NumChr : c \notin failed /\ ChromosomeGroups(c) # <<>> )
    => /\ pc = "returned"
       /\ \A c \in 1..NumChr :
             c \notin failed =>
                 MembershipSets(result, c) = MembershipSets(ChromosomeGroups(c), c)

\* The groups of gs that lie on chromosome c, in order.
GroupsOn(gs, c) == SelectSeq(gs, LAMBDA g : data[g[1]].chr = c)

\* What the engine of this object computes for chromosome c.
EngineGroups(c) ==
    IF Len(ChrRows(data, c)) < min_group_size THEN <<>>
    ELSE IF engine = "simple"
         THEN FindOverlappingGroupsSimple(data, ChrRows(data, c),
                                          min_overlap_bp, min_group_size)
    ELSE ProcessChromosomeOptimized(data, ChrRows(data, c),
                                    min_overlap_bp, min_group_size)

\* C9: no partial result becomes visible.  While a call runs and after it has
\* raised, self.triangulation_groups is what it was before the call; a call in
\* which the processing of a chromosome raised returns no list; and a returned
\* or stored list holds, for each chromosome, all of its groups or none.
C9_NoPartialResult ==
    /\ pc \in {"simple_loop", "pool_map", "raised"} =>
          triangulation_groups = groups_at_call
    /\ failed # {} => (pc # "returned" /\ result = <<>>)
    /\ result # <<>> => (pc = "returned" /\ result = triangulation_groups)
    /\ \A c \in 1..NumChr :
          GroupsOn(triangulation_groups, c) # <<>> =>
              GroupsOn(triangulation_groups, c) = EngineGroups(c)

\* C9's case: a call raised after groups of another chromosome had been
\* computed, on an engine object that already stored groups of an earlier call.
C9_Witness ==
    /\ pc = "raised"
    /\ triangulation_groups # <<>>
    /\ \/ (engine = "simple" /\ all_groups # <<>>)
       \/ (engine = "optimized" /\ \E k \in DOMAIN results : results[k] # <<>>)

\* C10: both report styles rank the groups by member count descending, groups
\* of equal size keep the relative order they have in the stored list, and the
\* rank numbers are 1..n in that order.
C10_StableRanking ==
    report.entries # <<>> =>
        LET e == report.entries
            ranked == [r \in 1..Len(e) |-> e[r].group]
        IN /\ Len(e) = Len(triangulation_groups)
           /\ \A r \in 1..Len(e) : e[r].rank = r /\ e[r].people = Len(e[r].group)
           /\ \A r, q \in 1..Len(e) : r < q => e[r].people >= e[q].people
           /\ \A n \in 1..MaxMembers :
                 SelectSeq(ranked, LAMBDA g : Len(g) = n)
                   = SelectSeq(triangulation_groups, LAMBDA g : Len(g) = n)

\* C10's case: a report was made of a list in which two different groups of one
\* size stand around a larger group.
C10_Witness ==
    /\ report.entries # <<>>
    /\ \E i, j, k \in 1..Len(triangulation_groups) :
          /\ i < j /\ j < k
          /\ Len(triangulation_groups[i]) = Len(triangulation_groups[k])
          /\ triangulation_groups[i] # triangulation_groups[k]
          /\ Len(triangulation_groups[j]) > Len(triangulation_groups[i])

\* C11: reporting is idempotent and free of side effects: a report call leaves
\* triangulation_groups unchanged in content and in order, and a call that
\* follows a call of the same report style returns the identical report.
C11_ReportIdempotent ==
    [][/\ triangulation_groups' = triangulation_groups
       /\ (report.text = report'.text => report' = report)]_vars

\* C11's case: the same report was returned twice in a row from a stored list
\* that is not in ranking order.
C11_Witness ==
    /\ previous_report = report
    /\ report.entries # <<>>
    /\ triangulation_groups # SortedBySizeReverse(triangulation_groups)

\* Row i of data has fewer than G - 1 other rows of its chromosome that overlap
\* it by at least T: no seed can collect a group of G rows.
NoSeedQualifies(T, G) ==
    \A i \in 1..Len(data) :
        Cardinality({j \in 1..Len(data) : /\ j # i
                                          /\ data[j].chr = data[i].chr
                                          /\ OverlapBp(i, j) >= T}) < G - 1

\* C12: a run on an empty frame never raises and returns the empty list; a run
\* that returns on a frame in which no seed can collect min_group_size rows
\* returns and stores the empty list; a report made of an empty stored list is
\* "No triangulation groups found."
C12_EmptyRun ==
    /\ data = <<>> => pc # "raised" /\ result = <<>>
    /\ (pc = "returned" /\ NoSeedQualifies(min_overlap_bp, min_group_size)) =>
           result = <<>> /\ triangulation_groups = <<>>
    /\ (report # NoReport /\ triangulation_groups = <<>>) => report = NoGroupsFound

\* C12's case: a run over a chromosome with enough rows, none of them overlapping
\* enough, has returned and a report was made of its result.
C12_Witness ==
    /\ pc = "returned"
    /\ min_group_size >= 2
    /\ \E c \in Range(GroupbyKeys(data)) : Len(ChrRows(data, c)) >= min_group_size
    /\ NoSeedQualifies(min_overlap_bp, min_group_size)
    /\ report = NoGroupsFound

\* The rows of data that are the members of group g.
MemberRows(g) == {data[g[k]] : k \in 1..Len(g)}

\* C13: on the chromosome holding exactly A, B and C, with min_group_size = 2,
\* each engine returns exactly one group, {A, B}, for min_overlap_bp = 1,000,000
\* and no group for min_overlap_bp = 6,000,000.
C13_WorkedExample ==
    (pc = "returned" /\ data \in ExampleFrames /\ min_group_size = 2) =>
        /\ min_overlap_bp = 1000000 =>
              Len(result) = 1 /\ MemberRows(result[1]) = {ExampleA, ExampleB}
        /\ min_overlap_bp = 6000000 => result = <<>>

\* C13's case: the optimized engine has returned the one group for the frame
\* given in the order C, B, A.
C13_Witness ==
    /\ pc = "returned"
    /\ engine = "optimized"
    /\ data = <<ExampleC, ExampleB, ExampleA>>
    /\ min_overlap_bp = 1000000
    /\ Len(result) = 1

\* What detect_triangulation_simple computes for chromosome c of data.
SimpleGroups(c) ==
    IF Len(ChrRows(data, c)) < min_group_size THEN <<>>
    ELSE FindOverlappingGroupsSimple(data, ChrRows(data, c),
                                     min_overlap_bp, min_group_size)

\* C14: for min_overlap_bp > 0 and min_group_size >= 2 the two engines return
\* the same membership sets on every frame, whatever its row order: what the
\* optimized engine returned is what the simple engine computes on the same
\* data.
C14_EnginesAgree ==
    (pc = "returned" /\ engine = "optimized" /\ ValidConfig) =>
        \A c \in 1..NumChr :
            MembershipSets(result, c) = MembershipSets(SimpleGroups(c), c)

\* C15: for min_overlap_bp > 0 and min_group_size >= 2 the list returned by
\* DNAChromosomeBrowser.detect_triangulation_groups has, on every chromosome,
\* the membership sets the seed-and-collect pass of the simple engine and of
\* the optimized engine computes on the same data.
C15_OriginalSameGroups ==
    (pc = "returned" /\ engine = "original" /\ ValidConfig) =>
        \A c \in 1..NumChr :
            /\ MembershipSets(result, c) = MembershipSets(SimpleGroups(c), c)
            /\ MembershipSets(result, c) = MembershipSets(ChromosomeGroups(c), c)

\* centimorgans value cm lies within the bounds the entries hold.
WithinCmBounds(cm) ==
    /\ FloatValue(min_cm) <= cm
    /\ max_cm # "" => cm <= FloatValue(max_cm)

\* C16: the cM bounds are applied before grouping: whenever run_triangulation
\* has invoked an engine, the frame the engine got is exactly the stored
\* segments with min_cm <= centimorgans <= max_cm, in stored order, and every
\* member of a returned group is a row of that frame within the bounds.
C16_CmBoundsBeforeGrouping ==
    pc \in {"analysis", "returned", "raised"} =>
        /\ data = SelectSeq(db, LAMBDA r : WithinCmBounds(r.cm))
        /\ \A a \in 1..Len(result) : \A m \in 1..Len(result[a]) :
              /\ result[a][m] \in 1..Len(data)
              /\ WithinCmBounds(data[result[a][m]].cm)

\* C16's case: an engine returned a group from a frame that lost a stored
\* segment to a bound and kept one whose centimorgans equal the lower bound.
C16_Witness ==
    /\ pc = "returned"
    /\ result # <<>>
    /\ Len(data) < Len(db)
    /\ FloatValue(min_cm) > 0
    /\ \E m \in 1..Len(result[1]) : data[result[1][m]].cm = FloatValue(min_cm)

RECURSIVE SumOfSizes(_)
SumOfSizes(gs) == IF gs = <<>> THEN 0 ELSE Len(Head(gs)) + SumOfSizes(Tail(gs))

\* The export records that carry Group_ID g, in file order.
RecordsOf(g) == SelectSeq(export_data, LAMBDA rec : rec.Group_ID = g)

\* C17: the export holds one record per (group, member) pair: as many records
\* as the group sizes add up to; the records with Group_ID g are the members
\* of the g-th stored group, one each; each carries Group_Size equal to the
\* number of records with its Group_ID, and Group_Start / Group_End equal to
\* the least start / greatest end of the group's members.
C17_ExportRecords ==
    export_data # <<>> =>
        /\ Len(export_data) = SumOfSizes(triangulation_groups)
        /\ \A k \in 1..Len(export_data) :
              export_data[k].Group_ID \in 1..Len(triangulation_groups)
        /\ \A g \in 1..Len(triangulation_groups) :
              LET recs == RecordsOf(g)
                  group == triangulation_groups[g]
              IN /\ [k \in 1..Len(recs) |-> recs[k].member] = group
                 /\ \A k \in 1..Len(recs) :
                       /\ recs[k].Group_Size = Len(recs)
                       /\ \A m \in 1..Len(group) :
                             /\ recs[k].Group_Start <= data[group[m]].start
                             /\ recs[k].Group_End >= data[group[m]].end
                       /\ \E m \in 1..Len(group) :
                             recs[k].Group_Start = data[group[m]].start
                       /\ \E m \in 1..Len(group) :
                             recs[k].Group_End = data[group[m]].end

\* C17's case: an export of two groups of different sizes, one of them with a
\* first member that has neither the least start nor the greatest end.
C17_Witness ==
    /\ export_data # <<>>
    /\ \E g, h \in 1..Len(triangulation_groups) :
          /\ Len(triangulation_groups[g]) # Len(triangulation_groups[h])
          /\ \E k \in 1..Len(export_data) :
                /\ export_data[k].Group_ID = g
                /\ export_data[k].Group_Start < data[triangulation_groups[g][1]].start
          /\ \E k \in 1..Len(export_data) :
                /\ export_data[k].Group_ID = h
                /\ export_data[k].Group_End > data[triangulation_groups[h][1]].end

\* Every candidate after the first overlaps the first, the seed, by at least T.
StarBuilt(segs, T) ==
    \A k \in 2..Len(segs) : ActualOverlapVerify(segs, 1, k) >= T

RECURSIVE ReachWithin(_, _, _, _)
ReachWithin(segs, T, S, R) ==
    LET more == R \cup {j \in S : \E i \in R : ActualOverlapVerify(segs, i, j) >= T}
    IN IF more = R THEN R ELSE ReachWithin(segs, T, S, more)

C20_ShortChromosome ==
    \A c \in Range(GroupbyKeys(data)) :
        Len(ChrRows(data, c)) < min_group_size =>
            /\ c \notin failed
            /\ GroupsOn(all_groups, c) = <<>>
            /\ GroupsOn(triangulation_groups, c) = <<>>
            /\ GroupsOn(result, c) = <<>>
            /\ FindOverlappingGroupsSimple(data, ChrRows(data, c),
                                           min_overlap_bp, min_group_size) = <<>>
            /\ ProcessChromosomeOptimized(data, ChrRows(data, c),
                                          min_overlap_bp, min_group_size) = <<>>

\* C20's case: a call returned on a frame with a chromosome whose rows overlap
\* enough but are fewer than min_group_size.
C20_Witness ==
    /\ pc = "returned"
    /\ min_overlap_bp > 0
    /\ \E c \in Range(GroupbyKeys(data)) :
          /\ Len(ChrRows(data, c)) < min_group_size
          /\ Len(ChrRows(data, c)) >= 2
          /\ OverlapBp(ChrRows(data, c)[1], ChrRows(data, c)[2]) >= min_overlap_bp

\* The frame d with its rows put in ascending order of start.
SortedFrame(d) ==
    LET p == SortByStart(d, [i \in 1..Len(d) |-> i])
    IN [k \in 1..Len(d) |-> d[p[k]]]

\* The groups of the list gs over frame d, each as the set of its rows.
RowGroups(d, gs) == {{d[gs[a][k]] : k \in 1..Len(gs[a])} : a \in 1..Len(gs)}

\* What the per-chromosome pass of engine e returns for chromosome c of frame d.
PassOn(e, d, c) ==
    IF Len(ChrRows(d, c)) < min_group_size THEN <<>>
    ELSE IF e = "simple"
         THEN FindOverlappingGroupsSimple(d, ChrRows(d, c), min_overlap_bp, min_group_size)
    ELSE ProcessChromosomeOptimized(d, ChrRows(d, c), min_overlap_bp, min_group_size)

DistinctStarts(d) ==
    \A i, j \in 1..Len(d) : (i # j /\ d[i].chr = d[j].chr) => d[i].start # d[j].start

\* C21: the pass of either engine tries the seeds in ascending order of start,
\* so on a frame whose rows have different starts the returned groups are the
\* groups the engine computes on the same rows supplied in order of start.
C21_SeedsInStartOrder ==
    (pc = "returned" /\ ValidConfig /\ DistinctStarts(data)) =>
        RowGroups(data, result)
            = UNION {RowGroups(SortedFrame(data), PassOn(engine, SortedFrame(data), c)) :
                       c \in 1..NumChr}

\* The seeds the simple pass tries on segments, in order, from state st: for
\* each, the rows consumed before it, the star it collects and the rows
\* consumed after it.
RECURSIVE SimpleTrace(_, _, _, _, _, _)
SimpleTrace(d, segments, T, G, i, st) ==
    IF i > Len(segments) THEN <<>>
    ELSE LET next_st == SeedStepSimple(d, segments, T, G, i, st)
             current == CollectSimple(d, segments, T, st.used, i, 1, <<i>>)
             tried == IF i \in st.used THEN <<>>
                      ELSE <<[seed |-> segments[i],
                              before |-> {segments[k] : k \in st.used},
                              star |-> {segments[current[k]] : k \in 1..Len(current)},
                              after |-> {segments[k] : k \in next_st.used}]>>
         IN tried \o SimpleTrace(d, segments, T, G, i + 1, next_st)

\* The same for the optimized pass on the sorted segments.
RECURSIVE OptimizedTrace(_, _, _, _, _, _)
OptimizedTrace(d, segments, T, G, i, st) ==
    IF i > Len(segments) THEN <<>>
    ELSE LET next_st == SeedStepOptimized(d, segments, T, G, i, st)
             current_group == CollectOptimized(d, segments, T, st.processed, i, 1,
                                               <<segments[i]>>)
             tried == IF segments[i] \in st.processed THEN <<>>
                      ELSE <<[seed |-> segments[i],
                              before |-> st.processed,
                              star |-> Range(current_group),
                              after |-> next_st.processed]>>
         IN tried \o OptimizedTrace(d, segments, T, G, i + 1, next_st)

\* The seeds tried by the engine of this object on chromosome c of data.
EngineTrace(c) ==
    IF Len(ChrRows(data, c)) < min_group_size THEN <<>>
    ELSE IF engine = "simple"
         THEN SimpleTrace(data, ChrRows(data, c), min_overlap_bp, min_group_size, 1,
                          [groups |-> <<>>, used |-> {}])
    ELSE OptimizedTrace(data, SortByStart(data, ChrRows(data, c)), min_overlap_bp,
                        min_group_size, 1, [groups |-> <<>>, processed |-> {}])

\* C22: for min_overlap_bp > 0 and min_group_size >= 2, the star of every seed
\* tried in a run that returned is the seed plus exactly the rows of its
\* chromosome not consumed before it that overlap it by at least
\* min_overlap_bp.
C22_StarExact ==
    (pc = "returned" /\ ValidConfig) =>
        \A c \in 1..NumChr :
            \A n \in 1..Len(EngineTrace(c)) :
                LET t == EngineTrace(c)[n]
                IN t.star = {t.seed} \cup
                            {x \in Range(ChrRows(data, c)) \ (t.before \cup {t.seed}) :
                                 OverlapBp(t.seed, x) >= min_overlap_bp}

\* C23: for min_overlap_bp > 0 and min_group_size >= 2, a seed whose star is
\* emitted adds exactly the star to the consumed rows and a seed whose star has
\* fewer than min_group_size rows leaves the consumed rows as they were; every
\* row of such a discarded star is collected by each later seed it overlaps by
\* at least min_overlap_bp, unless the row was consumed in between.
C23_ConsumedOnlyOnEmit ==
    (pc = "returned" /\ ValidConfig) =>
        \A c \in 1..NumChr :
            LET trace == EngineTrace(c)
            IN \A n \in 1..Len(trace) :
                  /\ trace[n].after =
                        IF Cardinality(trace[n].star) >= min_group_size
                        THEN trace[n].before \cup trace[n].star
                        ELSE trace[n].before
                  /\ Cardinality(trace[n].star) < min_group_size =>
                        \A m \in (n + 1)..Len(trace) : \A x \in trace[n].star :
                            (/\ x # trace[m].seed
                             /\ x \notin trace[m].before
                             /\ OverlapBp(trace[m].seed, x) >= min_overlap_bp)
                                => x \in trace[m].star

\* C23's case: a run returned in which a seed's star of two rows was discarded
\* and a later seed collected that earlier seed into a group.
C23_Witness ==
    /\ pc = "returned"
    /\ ValidConfig
    /\ \E c \in 1..NumChr :
          \E n, m \in 1..Len(EngineTrace(c)) :
              /\ n < m
              /\ Cardinality(EngineTrace(c)[n].star) = 2
              /\ min_group_size > 2
              /\ EngineTrace(c)[n].seed \in EngineTrace(c)[m].star
              /\ Cardinality(EngineTrace(c)[m].star) >= min_group_size

\* The rows of chromosome c that are in no group of the returned list.
Ungrouped(c) == {x \in Range(ChrRows(data, c)) : ~InSomeGroup(result, x)}

\* C26: for min_overlap_bp > 0 and min_group_size >= 2, when a run has
\* returned, no ungrouped row has min_group_size - 1 or more other ungrouped
\* rows of its chromosome that each overlap it by at least min_overlap_bp.
C26_NoFurtherGroup ==
    (pc = "returned" /\ ValidConfig) =>
        \A c \in 1..NumChr : \A x \in Ungrouped(c) :
            Cardinality({y \in Ungrouped(c) \ {x} : OverlapBp(x, y) >= min_overlap_bp})
                < min_group_size - 1

\* C26's case: a run returned from a chromosome with at least min_group_size
\* rows and left two rows ungrouped that overlap each other enough.
C26_Witness ==
    /\ pc = "returned"
    /\ ValidConfig
    /\ \E c \in 1..NumChr :
          /\ Len(ChrRows(data, c)) >= min_group_size
          /\ \E x, y \in Ungrouped(c) : x # y /\ OverlapBp(x, y) >= min_overlap_bp

\* The candidates linked to candidate x by a chain of overlaps of at least T
\* through any candidates of the list: x's component of the overlap graph.
ComponentOf(segs, T, x) == ReachWithin(segs, T, 1..Len(segs), {x})

\* C24: for a list of more than 5 candidates the strict pass returns, without
\* repeats, a whole connected component of the overlap graph on the candidates,
\* and no candidate's component has more members than the returned one.
C24_LargestComponent ==
    (pc = "returned" /\ Len(verify_segments) > SmallGroupLimit) =>
        /\ Cardinality(Range(verify_result)) = Len(verify_result)
        /\ verify_result # <<>>
        /\ \A x \in Range(verify_result) :
              ComponentOf(verify_segments, min_overlap_bp, x) = Range(verify_result)
        /\ \A y \in 1..Len(verify_segments) :
              Cardinality(ComponentOf(verify_segments, min_overlap_bp, y))
                  <= Len(verify_result)

\* C24's case: the components path returned a component of at least two
\* candidates that is not the component of the first candidate.
C24_Witness ==
    /\ pc = "returned"
    /\ Len(verify_segments) > SmallGroupLimit
    /\ Len(verify_result) >= 2
    /\ 1 \notin Range(verify_result)

\* C25: for a list of 2 to 5 candidates every two candidates of the returned
\* list overlap each other directly by at least min_overlap_bp.
C25_SmallAllPairs ==
    (pc = "returned" /\ Len(verify_segments) >= 2
                     /\ Len(verify_segments) <= SmallGroupLimit) =>
        \A a, b \in Range(verify_result) :
            a # b => ActualOverlapVerify(verify_segments, a, b) >= min_overlap_bp

\* C27: when the button is pressed with both cM entries at their default "0"
\* and the database holds segments, the analysis is started on every stored
\* segment.
C27_DefaultsKeepAll ==
    (calls = 1 /\ min_cm = "0" /\ max_cm = "0" /\ db # <<>>) =>
        /\ pc \in {"analysis", "returned", "raised"}
        /\ data = db

\* C28: when the export button is pressed while no analysis is in flight, the
\* file written holds the records of the groups found by the analysis that
\* completed last, and the "No Results" warning is shown only if that analysis
\* found no group or no analysis has completed.
C28_ExportsLatestRun ==
    (export_expected.quiet /\ pc \in {"exported", "no_results"}) =>
        IF pc = "exported"
        THEN export_data = ExportGroupDicts(export_expected.groups)
        ELSE export_expected.groups = <<>>

\* The texts run_analysis can build from the groups of an analysis.
ExpectedReports(algorithm, groups) ==
    IF algorithm = "simple"
    THEN {ReportBySize("SIMPLE DNA TRIANGULATION GROUPS - SORTED BY SIZE", groups)}
    ELSE IF algorithm = "optimized"
         THEN {ReportBySize("DNA TRIANGULATION GROUPS - SORTED BY SIZE", groups),
               SimpleGroupList(groups)}
    ELSE {OriginalReport(groups)}

\* C29: when the analysis started last was started while an earlier thread was
\* still running, and every thread has ended without an error and every
\* callback has run, the pane shows the results of the analysis started last
\* and the engine it used holds that analysis's groups.
C29_LastStartedWins ==
    (/\ Len(threads) >= 2
     /\ threads[Len(threads)].overlapped
     /\ AllFinished
     /\ after_queue = <<>>
     /\ \A t \in 1..Len(threads) : threads[t].outcome = "update") =>
        LET last == threads[Len(threads)]
            own == DetectWith(last.algorithm, last.df, min_overlap_bp, min_group_size)
        IN /\ analysis_results.kind = "results"
           /\ analysis_results.report \in ExpectedReports(last.algorithm, own)
           /\ last.algorithm \in {"simple", "optimized"} =>
                 engine_groups[last.algorithm] = own

\* C30: whenever the progress bar is running it is stopped later on, provided
\* the threads get to run and the main loop keeps running the callbacks.
C30_ProgressBarStops == (progress_bar = "running") ~> (progress_bar = "stopped")

\* C30's case: an analysis raised, its error callback has run and the bar is
\* at rest with nothing left in flight.
C30_Witness ==
    /\ progress_bar = "stopped"
    /\ AllFinished
    /\ after_queue = <<>>
    /\ analysis_results.kind = "error"
    /\ \E t \in 1..Len(threads) : threads[t].outcome = "error"

====
